---- MODULE Spec2Model ----
(***************************************************************************)
(* Model of app/main.py: the Twitch EventSub webhook handler that keeps a  *)
(* per-user monthly "plus points" total in the process-wide dictionary     *)
(* user_states and writes it through to one JSON blob per user.            *)
(*                                                                         *)
(* Threads.  handle_webhook is an "async def" endpoint: it runs on the     *)
(* event loop and contains no await after the request body is read, so     *)
(* the event loop runs one webhook at a time (thread 0).  get_points and   *)
(* set_points are plain "def" endpoints: the framework runs each call on   *)
(* a thread of its pool (threads 1..NumWorkers).  A thread gives way to    *)
(* the others at its blocking storage calls (blob.exists / download in     *)
(* load_user_state, upload_from_string in save_user_state); the code       *)
(* between two storage calls is one step.  A storage call takes effect at  *)
(* one instant (Fetch, Upload) and the thread resumes in a later step.     *)
(*                                                                         *)
(* Numbers.  plus_points is counted in half points (the tier amounts are   *)
(* 1, 2 and 2.5), so a Python total of x is the integer 2x here.  A month  *)
(* "YYYY-MM" is the index of the month on the UTC calendar.                *)
(***************************************************************************)
EXTENDS Integers, FiniteSets, Sequences, TLC

\* ---------------------------------------------------------------- bounds
NumUsers == 2
NumWorkers == 2
MaxReqs == 2
MaxMonth == 2
MaxValue == 1
MaxRestarts == 1
MaxFailures == 1
\* webhook requests GateSpec sends
GateReqs == 1

\* the month the process starts in; stored records may be one month older
StartMonth == 1
\* plus_points (in half points) of a record stored by an earlier process
OldPoints == 14

Users == 1..NumUsers
Workers == 1..NumWorkers
EventLoop == 0
Threads == {EventLoop} \cup Workers
Values == {0 - 1} \cup (1..MaxValue)
Tiers == {"1000", "2000", "3000", "other"}
\* event.get("tier") of an event without the key "tier"
NoTier == "<none>"
AllTiers == Tiers \cup {NoTier}

\* ------------------------------------------------------------ data model
\* an entry of user_states: {"plus_points": p, "month": m}; NoEntry: key absent
Rec(p, m) == [present |-> TRUE, plus_points |-> p, month |-> m]
NoEntry == [present |-> FALSE, plus_points |-> 0, month |-> 0]

\* a blob state_<user_id>.json: a JSON object whose keys may be missing
Blob(hp, p, hm, m) ==
  [exists |-> TRUE, hasPoints |-> hp, plus_points |-> p, hasMonth |-> hm, month |-> m]
NoBlob == [exists |-> FALSE, hasPoints |-> FALSE, plus_points |-> 0, hasMonth |-> FALSE, month |-> 0]

\* outcome of the storage reads of load_user_state
Fetched(r, b) == [res |-> r, blob |-> b]
NoFetch == Fetched("none", NoBlob)

\* -------------------------------------------------- signature headers
\* a header that the request does not carry
Absent == "<absent>"

\* the secret the platform signs with, and the key of another sender
Secret == "s3cr3t"
Keys == {Secret, "0ther"}
MessageIds == {"m1", "m2"}
Timestamps == {"t1", "t2"}

\* hmac.new(key, message, sha256).hexdigest(): a digest that differs
\* whenever the key or the message differs
hmac_sha256(key, message) == <<key, message>>

\* the value of a Twitch-Eventsub-Message-Signature header: a prefix and a digest
SigHeader(prefix, digest) == [present |-> TRUE, prefix |-> prefix, digest |-> digest]
NoSigHeader == [present |-> FALSE, prefix |-> "", digest |-> <<"", "">>]

\* the header a sender holding key puts on the message (id, ts, body)
Signed(key, id, ts, body) == SigHeader("sha256=", hmac_sha256(key, id \o ts \o body))

\* the three signature headers of a webhook request
Headers(id, ts, sig) == [id |-> id, ts |-> ts, sig |-> sig]
NoHeaders == Headers(Absent, Absent, NoSigHeader)

\* raw request bodies, by what the handler reads from them
ChallengeBody(hasChallenge) == IF hasChallenge THEN "{challenge}" ELSE "{}"
NotificationBody(u, tier) == "{user:" \o ToString(u) \o ",tier:" \o tier \o "}"
NoUserBody == "{event:{}}"
OtherBody == "{other}"

\* the signature headers a sender may put on a request with this body: the
\* digest of any key over any id, any timestamp and this or another body,
\* with the prefix, or the right digest without it, or none
SigHeaders(body) ==
  {NoSigHeader}
    \cup {SigHeader("", hmac_sha256(Secret, i \o t \o body)) : i \in MessageIds, t \in Timestamps}
    \cup {Signed(k, i, t, b) : k \in Keys, i \in MessageIds, t \in Timestamps,
                                b \in {body, OtherBody \o body}}

\* every combination of signature headers on a request with this body
AllHeaders(body) ==
  {Headers(i, t, s) : i \in MessageIds \cup {Absent}, t \in Timestamps \cup {Absent},
                      s \in SigHeaders(body)}

\* the deliveries Spec sends: signed by the platform, signed by another
\* sender, and unsigned
Deliveries(body) ==
  {Headers("m1", "t1", Signed(Secret, "m1", "t1", body)),
   Headers("m1", "t1", Signed("0ther", "m1", "t1", body)),
   NoHeaders}

VARIABLES
  clock,            \* the UTC month datetime.now(UTC) falls in
  EVENTSUB_SECRET,  \* "" or a secret, read from the environment at start
  user_states,      \* the cache: user id -> entry
  bucket,           \* the durable store: user id -> blob
  th,               \* per thread: position and locals of the request it runs
  nreq,             \* requests accepted so far
  limit,            \* the number of requests the environment sends in this run
  nrestart,         \* process restarts so far
  resp,             \* the HTTP response the last step returned, if it returned one
  overlap,          \* history: two requests for this user have overlapped
  nfail,            \* storage calls that have failed so far (bounded by MaxFailures)
  storeOk,          \* history: outcome of the last uploads for this user
  lastSet,          \* history: the set-points that was the last mutation of a user
  held,             \* history: the entry of a user when its last mutation returned
  acc               \* history: the notifications counted for a user this month

vars == <<clock, EVENTSUB_SECRET, user_states, bucket, th, nreq, limit, nrestart,
          resp, overlap, nfail, storeOk, lastSet, held, acc>>

\* ---------------------------------------------------------- pure helpers
\* get_current_month(): datetime.now(UTC).strftime("%Y-%m")
get_current_month == clock

\* faulty variant: the total is written under a key load_user_state does not read
json_dumps_other_key(rec) == Blob(FALSE, 0, TRUE, rec.month)

\* json.dumps(user_states[user_id]): both keys are always written
json_dumps(rec) == Blob(TRUE, rec.plus_points, TRUE, rec.month)

\* faulty variant: the default entry is built without the current month
load_user_state_no_month(got, now) ==
  IF got.res = "found" /\ got.blob.exists
    THEN Rec(IF got.blob.hasPoints THEN got.blob.plus_points ELSE 0,
             IF got.blob.hasMonth THEN got.blob.month ELSE now)
    ELSE Rec(0, 0)

\* the entry load_user_state builds from what it fetched:
\* data.get("plus_points", 0), data.get("month", get_current_month()),
\* and the default entry when the blob is absent or the fetch raised
load_user_state(got, now) ==
  IF got.res = "found" /\ got.blob.exists
    THEN Rec(IF got.blob.hasPoints THEN got.blob.plus_points ELSE 0,
             IF got.blob.hasMonth THEN got.blob.month ELSE now)
    ELSE Rec(0, now)

\* faulty variant: the amount is kept an integer, 2.5 becomes 2
TierAmountInt(tier) ==
  IF tier = "1000" THEN 2
  ELSE IF tier = "2000" THEN 4
  ELSE IF tier = "3000" THEN 4
  ELSE 0

\* amount = 1 if tier == "1000" else 2 if tier == "2000" else 2.5 if tier == "3000" else 0
TierAmount(tier) ==
  IF tier = "1000" THEN 2
  ELSE IF tier = "2000" THEN 4
  ELSE IF tier = "3000" THEN 5
  ELSE 0

\* faulty variant: the digest is taken over the id and the timestamp only
verify_signature_unsigned_body(secret, headers, body) ==
  IF secret = "" THEN TRUE
  ELSE /\ headers.id # Absent /\ headers.ts # Absent /\ headers.sig.present
       /\ headers.sig = SigHeader("sha256=", hmac_sha256(secret, headers.id \o headers.ts))

\* verify_signature (lines 60-71): an empty secret accepts everything;
\* otherwise a missing header raises KeyError (-> False) and the signature
\* header must equal "sha256=" + the digest of id + timestamp + body
verify_signature(secret, headers, body) ==
  IF secret = "" THEN TRUE
  ELSE /\ headers.id # Absent /\ headers.ts # Absent /\ headers.sig.present
       /\ headers.sig = SigHeader("sha256=", hmac_sha256(secret, headers.id \o headers.ts \o body))

\* faulty variant: the month is refreshed but the total is not reset
RolloverKeepsTotal(rec, now) ==
  IF now # rec.month THEN Rec(rec.plus_points, now) ELSE rec

\* lines 112-115: now = get_current_month(); reset the total when the month differs
Rollover(rec, now) ==
  IF now # rec.month THEN Rec(0, now) ELSE rec

\* faulty variant: "=" for "+=": the amount replaces the total
IncrementOverwrites(rec, amount) == Rec(amount, rec.month)

\* line 119: user_states[user_id]["plus_points"] += amount
Increment(rec, amount) == Rec(rec.plus_points + amount, rec.month)

\* faulty variant: line 87 is missing, the month is left as it was
SetAbsoluteKeepsMonth(rec, value, now) == Rec(2 * value, rec.month)

\* faulty variant: "+=" for "=": the value is added to the previous total
SetAbsoluteAdds(rec, value, now) == Rec(rec.plus_points + 2 * value, now)

\* lines 86-87: overwrite the total and re-anchor the month
SetAbsolute(rec, value, now) == Rec(2 * value, now)

\* ------------------------------------------------------- request records
\* locals of a request: pc is the position in the handler, got the result of
\* the storage read, payload the serialized entry handed to the upload, now
\* the month read at line 87 or 112; history (never read by the code): iso,
\* the request has run alone for its user; seen, the entry the handler found
\* after the load; m0, the month the request arrived in; hdr and tier, the
\* signature headers of a webhook request; raw, its body; tier, the tier of a
\* notification; nstore, the uploads the request has attempted
Idle ==
  [pc |-> "idle", kind |-> "none", user |-> 0, value |-> 0, amount |-> 0,
   got |-> NoFetch, now |-> 0, payload |-> NoBlob,
   iso |-> FALSE, seen |-> NoEntry, m0 |-> 0,
   hdr |-> NoHeaders, raw |-> "", tier |-> NoTier, nstore |-> 0]

NoSet == [ok |-> FALSE, value |-> 0, m0 |-> 0, seen |-> NoEntry]

\* a notification as the platform identifies it: its signature headers and
\* its body
Message(hdr, raw) == [hdr |-> hdr, raw |-> raw]
NoMessage == Message(NoHeaders, "")

\* the notifications counted for a user this month: n of them, sum the
\* starting total plus their amounts; the last one was msg, of amount amt,
\* delivered k times in a row, the first time on the total base
NoAcc == [ok |-> FALSE, fresh |-> FALSE, n |-> 0, sum |-> 0,
          msg |-> NoMessage, amt |-> 0, k |-> 0, base |-> 0]
FreshAcc(fresh, sum) == [NoAcc EXCEPT !.ok = TRUE, !.fresh = fresh, !.sum = sum]

EmptyBody == [u \in Users |-> NoEntry]

\* an HTTP response: status and body; the other fields record what the
\* request that returned it saw (history)
Resp(kind, user, status, body, loc) ==
  [kind |-> kind, user |-> user, status |-> status, body |-> body,
   iso |-> loc.iso, seen |-> loc.seen, now |-> loc.now,
   amount |-> loc.amount, value |-> loc.value, got |-> loc.got,
   hdr |-> loc.hdr, raw |-> loc.raw, tier |-> loc.tier, nstore |-> loc.nstore,
   payload |-> loc.payload, stored |-> FALSE, before |-> NoBlob]

NoResp == Resp("none", 0, 0, EmptyBody, Idle)

\* threads that are inside a request for user u
Busy(u) == {s \in Threads : th[s].pc # "idle" /\ th[s].user = u}

\* the pool hands a request to a free thread; which one makes no difference,
\* so the lowest free one is taken
Free(t) ==
  /\ th[t].pc = "idle"
  /\ \A s \in Workers : s < t => th[s].pc # "idle"

\* blobs an earlier process (or an operator) may have left in the bucket
InitBlobs ==
  {NoBlob,
   Blob(TRUE, OldPoints, TRUE, StartMonth - 1),
   Blob(FALSE, 0, FALSE, 0)}

\* the total a user starts the month StartMonth with
StartTotal(blob) ==
  Rollover(load_user_state(Fetched("found", blob), StartMonth), StartMonth).plus_points

Init ==
  /\ clock = StartMonth
  /\ EVENTSUB_SECRET = Secret
  /\ user_states = [u \in Users |-> NoEntry]
  /\ bucket \in [Users -> InitBlobs]
  /\ th = [t \in Threads |-> Idle]
  /\ nreq = 0
  /\ limit = MaxReqs
  /\ nrestart = 0
  /\ resp = NoResp
  /\ overlap = [u \in Users |-> FALSE]
  /\ nfail = 0
  /\ storeOk = [u \in Users |-> "none"]
  /\ lastSet = [u \in Users |-> NoSet]
  /\ held = [u \in Users |-> NoEntry]
  /\ acc = [u \in Users |-> FreshAcc(~bucket[u].exists, StartTotal(bucket[u]))]

\* ------------------------------------------------------- request arrival
\* the locals of a request of thread t for user u as it arrives
Arrive(kind, u, value, amount) ==
  [Idle EXCEPT !.kind = kind, !.user = u, !.value = value, !.amount = amount,
               !.iso = (Busy(u) = {}), !.m0 = clock]

\* the history kept about u when a request for u arrives
Arrival(kind, u) ==
  /\ nreq < limit
  /\ nreq' = nreq + 1
  /\ overlap' = [overlap EXCEPT ![u] = @ \/ Busy(u) # {}]
  /\ acc' = [acc EXCEPT ![u] = IF kind = "set" THEN NoAcc ELSE @]

\* the threads after thread t has taken the locals loc for a request for u:
\* the requests for u already running are no longer alone
Threads1(t, u, loc) ==
  [s \in Threads |->
     IF s = t THEN loc
     ELSE IF s \in Busy(u) THEN [th[s] EXCEPT !.iso = FALSE]
     ELSE th[s]]

\* faulty variant: the state is loaded whether or not the user is cached
MissOrReload(t, loc) ==
  /\ Arrival(loc.kind, loc.user)
  /\ th' = Threads1(t, loc.user, [loc EXCEPT !.pc = "fetch"])
  /\ lastSet' = [lastSet EXCEPT ![loc.user] =
                   IF loc.kind # "get" \/ Busy(loc.user) # {} THEN NoSet ELSE @]
  /\ resp' = NoResp
  /\ UNCHANGED <<clock, EVENTSUB_SECRET, user_states, bucket, limit, nrestart,
                 nfail, storeOk, held>>

\* "if user_id not in user_states: load_user_state(user_id)" (lines 76-77,
\* 84-85, 109-110) on a miss: the thread blocks in the storage read
Miss(t, loc) ==
  /\ ~user_states[loc.user].present
  /\ Arrival(loc.kind, loc.user)
  /\ th' = Threads1(t, loc.user, [loc EXCEPT !.pc = "fetch"])
  /\ lastSet' = [lastSet EXCEPT ![loc.user] =
                   IF loc.kind # "get" \/ Busy(loc.user) # {} THEN NoSet ELSE @]
  /\ resp' = NoResp
  /\ UNCHANGED <<clock, EVENTSUB_SECRET, user_states, bucket, limit, nrestart,
                 nfail, storeOk, held>>

\* ------------------------------------------------------ load_user_state
\* lines 33-36: blob.exists() and blob.download_as_string() take effect;
\* either may raise
Fetch(t) ==
  /\ th[t].pc = "fetch"
  /\ \E ok \in BOOLEAN :
       /\ ok \/ nfail < MaxFailures
       /\ th' = [th EXCEPT ![t].pc = "loaded",
                           ![t].got = IF ~ok THEN Fetched("error", NoBlob)
                                      ELSE IF bucket[th[t].user].exists
                                        THEN Fetched("found", bucket[th[t].user])
                                      ELSE Fetched("absent", NoBlob)]
       /\ nfail' = IF ok THEN nfail ELSE nfail + 1
  /\ resp' = NoResp
  /\ UNCHANGED <<clock, EVENTSUB_SECRET, user_states, bucket, nreq, limit, nrestart,
                 overlap, storeOk, lastSet, held, acc>>

\* ------------------------------------------------------------- handlers
\* faulty variant: the rollover runs but the amount is never added
NotifyDropsIncrement(rec, amount, now) == Rollover(rec, now)

\* handle_webhook lines 112-119 on the entry rec
Notify(rec, amount, now) == Increment(Rollover(rec, now), amount)

\* the entry a mutating request leaves: set_points lines 86-87 or
\* handle_webhook lines 112-119
Mutate(kind, rec, value, amount, now) ==
  IF kind = "set" THEN SetAbsolute(rec, value, now) ELSE Notify(rec, amount, now)

\* faulty variant: a notification whose message is the one counted last for
\* the user is acknowledged without being added
RunToDeduplicated(t, u, loc, rec) ==
  LET dup == loc.kind = "notif" /\ acc[u].k >= 1 /\ acc[u].msg = Message(loc.hdr, loc.raw)
      new == Mutate(loc.kind, rec, loc.value, IF dup THEN 0 ELSE loc.amount, get_current_month) IN
  /\ user_states' = [user_states EXCEPT ![u] = new]
  /\ th' = Threads1(t, u, [loc EXCEPT !.pc = "upload", !.payload = json_dumps(new),
                                      !.now = get_current_month, !.seen = rec])

\* a mutating request runs from its entry rec to the upload of
\* save_user_state: the entry is rewritten and serialized (line 53)
RunTo(t, u, loc, rec) ==
  LET new == Mutate(loc.kind, rec, loc.value, loc.amount, get_current_month) IN
  /\ user_states' = [user_states EXCEPT ![u] = new]
  /\ th' = Threads1(t, u, [loc EXCEPT !.pc = "upload", !.payload = json_dumps(new),
                                      !.now = get_current_month, !.seen = rec])

\* faulty variant: a failed upload leaves the blob emptied
upload_from_string_torn(blob, payload, ok) == IF ok THEN payload ELSE NoBlob

\* blob.upload_from_string(payload): the blob afterwards
upload_from_string(blob, payload, ok) == IF ok THEN payload ELSE blob

\* what one more upload outcome makes of the upload history of a user
StoreHistory(old, ok) ==
  IF ~ok THEN "failed" ELSE IF old = "failed" THEN "recovered" ELSE "ok"

\* what one more returned notification makes of the count kept for its user
Counted(a, loc) ==
  LET m == Message(loc.hdr, loc.raw)
      again == a.k >= 1 /\ a.msg = m
  IN [a EXCEPT !.n = @ + 1, !.sum = @ + loc.amount, !.msg = m, !.amt = loc.amount,
               !.k = IF again THEN @ + 1 ELSE 1,
               !.base = IF again THEN @
                        ELSE IF loc.seen.month = loc.now THEN loc.seen.plus_points ELSE 0]

\* faulty variant: a failed upload is attempted again
after_upload_retry(loc, ok) == IF ok THEN Idle ELSE [loc EXCEPT !.nstore = @ + 1]

\* the thread after save_user_state has returned: lines 57-58 swallow a
\* failure and the handler returns (lines 89, 121), whatever the outcome
after_upload(loc, ok) == Idle

\* save_user_state lines 52-58: blob.upload_from_string takes effect or
\* raises; a failure is printed and swallowed.  The handler then returns its
\* message (lines 89, 121).
Upload(t) ==
  /\ th[t].pc = "upload"
  /\ LET u == th[t].user IN
     \E ok \in BOOLEAN :
       /\ ok \/ nfail < MaxFailures
       /\ bucket' = [bucket EXCEPT ![u] = upload_from_string(@, th[t].payload, ok)]
       /\ storeOk' = [storeOk EXCEPT ![u] = StoreHistory(@, ok)]
       /\ nfail' = IF ok THEN nfail ELSE nfail + 1
       /\ lastSet' = [lastSet EXCEPT ![u] =
                        IF th[t].kind = "set" /\ th[t].iso
                          THEN [ok |-> TRUE, value |-> th[t].value, m0 |-> th[t].m0,
                                seen |-> th[t].seen]
                          ELSE NoSet]
       /\ acc' = [acc EXCEPT ![u] =
                    IF @.ok /\ th[t].kind = "notif" THEN Counted(@, th[t]) ELSE @]
       /\ resp' = [Resp(th[t].kind, u, 200, EmptyBody, th[t]) EXCEPT
                     !.nstore = @ + 1, !.stored = ok, !.before = bucket[u]]
       /\ th' = [th EXCEPT ![t] = after_upload(th[t], ok)]
  /\ held' = [held EXCEPT ![th[t].user] = user_states[th[t].user]]
  /\ UNCHANGED <<clock, EVENTSUB_SECRET, user_states, nreq, limit, nrestart, overlap>>

\* ----------------------------------------------------- GET /points (73-80)
\* faulty variant: the GET applies the month rollover to the entry it returns
get_points_hit_rolls_over(t, u) ==
  /\ t \in Workers /\ Free(t)
  /\ user_states[u].present
  /\ Arrival("get", u)
  /\ th' = Threads1(t, u, Idle)
  /\ lastSet' = [lastSet EXCEPT ![u] = IF Busy(u) # {} THEN NoSet ELSE @]
  /\ user_states' = [user_states EXCEPT ![u] = Rollover(@, get_current_month)]
  /\ resp' = Resp("get", u, 200,
                  [v \in Users |-> IF v = u THEN user_states'[u] ELSE NoEntry],
                  Arrive("get", u, 0, 0))
  /\ UNCHANGED <<clock, EVENTSUB_SECRET, bucket, limit, nrestart, nfail, storeOk, held>>

\* lines 75-78 with a user_id that is cached: return {user_id: user_states[user_id]}
get_points_hit(t, u) ==
  /\ t \in Workers /\ Free(t)
  /\ user_states[u].present
  /\ Arrival("get", u)
  /\ th' = Threads1(t, u, Idle)
  /\ lastSet' = [lastSet EXCEPT ![u] = IF Busy(u) # {} THEN NoSet ELSE @]
  /\ resp' = Resp("get", u, 200,
                  [v \in Users |-> IF v = u THEN user_states[u] ELSE NoEntry],
                  Arrive("get", u, 0, 0))
  /\ UNCHANGED <<clock, EVENTSUB_SECRET, user_states, bucket, limit, nrestart,
                 nfail, storeOk, held>>

\* lines 75-77 with a user_id that is not cached
get_points_miss(t, u) ==
  /\ t \in Workers /\ Free(t)
  /\ Miss(t, Arrive("get", u, 0, 0))

\* lines 37-46 after the storage read, then line 78
get_points_loaded(t) ==
  /\ th[t].pc = "loaded" /\ th[t].kind = "get"
  /\ LET u == th[t].user
         new == load_user_state(th[t].got, get_current_month) IN
       /\ user_states' = [user_states EXCEPT ![u] = new]
       /\ resp' = Resp("get", u, 200,
                       [v \in Users |-> IF v = u THEN new ELSE NoEntry], th[t])
  /\ th' = [th EXCEPT ![t] = Idle]
  /\ UNCHANGED <<clock, EVENTSUB_SECRET, bucket, nreq, limit, nrestart,
                 overlap, nfail, storeOk, lastSet, held, acc>>

\* line 80, no user_id: return user_states, the whole cache
get_points_all(t) ==
  /\ t \in Workers /\ Free(t)
  /\ nreq < limit
  /\ nreq' = nreq + 1
  /\ resp' = Resp("getall", 0, 200, user_states, Idle)
  /\ UNCHANGED <<clock, EVENTSUB_SECRET, user_states, bucket, th, limit, nrestart,
                 overlap, nfail, storeOk, lastSet, held, acc>>

\* ------------------------------------------------ POST /set-points (82-89)
\* lines 84-88 for a cached user, up to the upload
set_points_hit(t, u, value) ==
  /\ t \in Workers /\ Free(t)
  /\ user_states[u].present
  /\ Arrival("set", u)
  /\ RunTo(t, u, Arrive("set", u, value, 0), user_states[u])
  /\ lastSet' = [lastSet EXCEPT ![u] = NoSet]
  /\ resp' = NoResp
  /\ UNCHANGED <<clock, EVENTSUB_SECRET, bucket, limit, nrestart, nfail, storeOk, held>>

\* lines 84-85 for a user that is not cached
set_points_miss(t, u, value) ==
  /\ t \in Workers /\ Free(t)
  /\ Miss(t, Arrive("set", u, value, 0))

\* lines 37-46 after the storage read, then lines 86-88 up to the upload
set_points_loaded(t) ==
  /\ th[t].pc = "loaded" /\ th[t].kind = "set"
  /\ RunTo(t, th[t].user, th[t], load_user_state(th[t].got, get_current_month))
  /\ resp' = NoResp
  /\ UNCHANGED <<clock, EVENTSUB_SECRET, bucket, nreq, limit, nrestart,
                 overlap, nfail, storeOk, lastSet, held, acc>>

\* --------------------------------------------------- POST /webhook (91-123)
\* faulty variant: the webhook default-initializes the cache before it is classified
AnswerAfterTouch(kind, status, hdr, raw) ==
  /\ th[EventLoop].pc = "idle"
  /\ nreq < limit
  /\ nreq' = nreq + 1
  /\ resp' = Resp(kind, 0, status, EmptyBody, [Idle EXCEPT !.hdr = hdr, !.raw = raw])
  /\ user_states' = [u \in Users |-> Rec(0, get_current_month)]
  /\ UNCHANGED <<clock, EVENTSUB_SECRET, bucket, th, limit, nrestart,
                 overlap, nfail, storeOk, lastSet, held, acc>>

\* a webhook that touches no state: answered in one step on the event loop
Answer(kind, status, hdr, raw) ==
  /\ th[EventLoop].pc = "idle"
  /\ nreq < limit
  /\ nreq' = nreq + 1
  /\ resp' = Resp(kind, 0, status, EmptyBody, [Idle EXCEPT !.hdr = hdr, !.raw = raw])
  /\ UNCHANGED <<clock, EVENTSUB_SECRET, user_states, bucket, th, limit, nrestart,
                 overlap, nfail, storeOk, lastSet, held, acc>>

\* a webhook request reaches the handler: the event loop is free to run it
Incoming == th[EventLoop].pc = "idle" /\ nreq < limit

\* lines 94-95: invalid signature -> 403, whatever the message type and body
webhook_bad_signature(hdr, raw) ==
  /\ Incoming
  /\ ~verify_signature(EVENTSUB_SECRET, hdr, raw)
  /\ Answer("forbidden", 403, hdr, raw)

\* lines 100-101: the handshake echoes payload["challenge"]; a payload
\* without that key raises KeyError, which the framework answers with 500
webhook_challenge(hdr, hasChallenge) ==
  /\ Incoming
  /\ verify_signature(EVENTSUB_SECRET, hdr, ChallengeBody(hasChallenge))
  /\ IF hasChallenge THEN Answer("challenge", 200, hdr, ChallengeBody(hasChallenge))
                     ELSE Answer("error", 500, hdr, ChallengeBody(hasChallenge))

\* lines 103-107: a notification without broadcaster_user_id -> 400
webhook_missing_user(hdr) ==
  /\ Incoming
  /\ verify_signature(EVENTSUB_SECRET, hdr, NoUserBody)
  /\ Answer("badrequest", 400, hdr, NoUserBody)

\* line 123: any other message type -> {"message": "Unhandled"}
webhook_unhandled(hdr) ==
  /\ Incoming
  /\ verify_signature(EVENTSUB_SECRET, hdr, OtherBody)
  /\ Answer("unhandled", 200, hdr, OtherBody)

\* the locals of a notification for u as it arrives (lines 93-105, 117-118)
Notification(hdr, u, tier) ==
  [Arrive("notif", u, 0, TierAmount(tier)) EXCEPT
     !.hdr = hdr, !.raw = NotificationBody(u, tier), !.tier = tier]

\* lines 103-120: a notification for a cached user, up to the upload
webhook_hit(hdr, u, tier) ==
  /\ Incoming
  /\ verify_signature(EVENTSUB_SECRET, hdr, NotificationBody(u, tier))
  /\ th[EventLoop].pc = "idle"
  /\ user_states[u].present
  /\ Arrival("notif", u)
  /\ RunTo(EventLoop, u, Notification(hdr, u, tier), user_states[u])
  /\ lastSet' = [lastSet EXCEPT ![u] = NoSet]
  /\ resp' = NoResp
  /\ UNCHANGED <<clock, EVENTSUB_SECRET, bucket, limit, nrestart, nfail, storeOk, held>>

\* lines 103-110: a notification for a user that is not cached
webhook_miss(hdr, u, tier) ==
  /\ Incoming
  /\ verify_signature(EVENTSUB_SECRET, hdr, NotificationBody(u, tier))
  /\ th[EventLoop].pc = "idle"
  /\ Miss(EventLoop, Notification(hdr, u, tier))

\* lines 37-46 after the storage read, then lines 112-120 up to the upload
webhook_loaded(t) ==
  /\ th[t].pc = "loaded" /\ th[t].kind = "notif"
  /\ RunTo(t, th[t].user, th[t], load_user_state(th[t].got, get_current_month))
  /\ resp' = NoResp
  /\ UNCHANGED <<clock, EVENTSUB_SECRET, bucket, nreq, limit, nrestart,
                 overlap, nfail, storeOk, lastSet, held, acc>>

\* ------------------------------------------------------------ environment
\* the UTC month changes
Tick ==
  /\ clock < MaxMonth
  /\ clock' = clock + 1
  /\ acc' = [u \in Users |->
               IF ~user_states[u].present /\ ~bucket[u].exists /\ Busy(u) = {}
                 THEN FreshAcc(TRUE, 0)
                 ELSE NoAcc]
  /\ resp' = NoResp
  /\ UNCHANGED <<EVENTSUB_SECRET, user_states, bucket, th, nreq, limit, nrestart,
                 overlap, nfail, storeOk, lastSet, held>>

\* the process is restarted after its requests have drained: line 20 runs
\* again (user_states = {}), the bucket keeps its blobs
Restart ==
  /\ nrestart < MaxRestarts
  /\ \A t \in Threads : th[t].pc = "idle"
  /\ nrestart' = nrestart + 1
  /\ user_states' = [u \in Users |-> NoEntry]
  /\ storeOk' = [u \in Users |-> "none"]
  /\ lastSet' = [u \in Users |-> NoSet]
  /\ acc' = [u \in Users |-> NoAcc]
  /\ resp' = NoResp
  /\ UNCHANGED <<clock, EVENTSUB_SECRET, bucket, th, nreq, limit, overlap, nfail, held>>

Next ==
  \/ \E t \in Workers, u \in Users : get_points_hit(t, u)
  \/ \E t \in Workers, u \in Users : get_points_miss(t, u)
  \/ \E t \in Workers : get_points_loaded(t)
  \/ \E t \in Workers : get_points_all(t)
  \/ \E t \in Workers, u \in Users, v \in Values : set_points_hit(t, u, v)
  \/ \E t \in Workers, u \in Users, v \in Values : set_points_miss(t, u, v)
  \/ \E t \in Workers : set_points_loaded(t)
  \/ \E hdr \in Deliveries(OtherBody) : webhook_bad_signature(hdr, OtherBody)
  \/ \E c \in BOOLEAN : \E hdr \in Deliveries(ChallengeBody(c)) : webhook_challenge(hdr, c)
  \/ \E hdr \in Deliveries(NoUserBody) : webhook_missing_user(hdr)
  \/ \E hdr \in Deliveries(OtherBody) : webhook_unhandled(hdr)
  \/ \E u \in Users, tier \in Tiers : \E hdr \in Deliveries(NotificationBody(u, tier)) :
       webhook_hit(hdr, u, tier)
  \/ \E u \in Users, tier \in Tiers : \E hdr \in Deliveries(NotificationBody(u, tier)) :
       webhook_miss(hdr, u, tier)
  \/ webhook_loaded(EventLoop)
  \/ \E t \in Threads : Fetch(t)
  \/ \E t \in Threads : Upload(t)
  \/ Tick
  \/ Restart

Spec == Init /\ [][Next]_vars

\* --------------------------------------------------------------- RaceSpec
\* One more request than Spec sends, with the requests that can race a
\* notification without changing the total themselves: GET /points and
\* notifications, in one month of one process.
RaceInit ==
  /\ clock = StartMonth
  /\ EVENTSUB_SECRET = Secret
  /\ user_states = [u \in Users |-> NoEntry]
  /\ bucket \in [Users -> {NoBlob, Blob(TRUE, OldPoints, TRUE, StartMonth)}]
  /\ th = [t \in Threads |-> Idle]
  /\ nreq = 0
  /\ limit = MaxReqs + 1
  /\ nrestart = 0
  /\ resp = NoResp
  /\ overlap = [u \in Users |-> FALSE]
  /\ nfail = 0
  /\ storeOk = [u \in Users |-> "none"]
  /\ lastSet = [u \in Users |-> NoSet]
  /\ held = [u \in Users |-> NoEntry]
  /\ acc = [u \in Users |-> FreshAcc(~bucket[u].exists, StartTotal(bucket[u]))]

RaceNext ==
  \/ \E t \in Workers, u \in Users : get_points_hit(t, u)
  \/ \E t \in Workers, u \in Users : get_points_miss(t, u)
  \/ \E t \in Workers : get_points_loaded(t)
  \/ \E u \in Users, tier \in Tiers : \E hdr \in Deliveries(NotificationBody(u, tier)) :
       webhook_hit(hdr, u, tier)
  \/ \E u \in Users, tier \in Tiers : \E hdr \in Deliveries(NotificationBody(u, tier)) :
       webhook_miss(hdr, u, tier)
  \/ webhook_loaded(EventLoop)
  \/ \E t \in Threads : Fetch(t)
  \/ \E t \in Threads : Upload(t)

RaceSpec == RaceInit /\ [][RaceNext]_vars

\* --------------------------------------------------------------- GateSpec
\* The webhook endpoint alone, started with either setting of the secret and
\* sent, on an empty cache, every combination of signature headers, every
\* body and every tier.
Bodies ==
  {ChallengeBody(c) : c \in BOOLEAN}
    \cup {NotificationBody(u, tier) : u \in Users, tier \in AllTiers}
    \cup {NoUserBody, OtherBody}

\* the signature headers GateSpec sends with each body
HeadersOf == [raw \in Bodies |-> AllHeaders(raw)]

GateInit ==
  /\ clock = StartMonth
  /\ EVENTSUB_SECRET \in {"", Secret}
  /\ user_states = [u \in Users |-> NoEntry]
  /\ bucket \in [Users -> {NoBlob, Blob(TRUE, OldPoints, TRUE, StartMonth)}]
  /\ th = [t \in Threads |-> Idle]
  /\ nreq = 0
  /\ limit = GateReqs
  /\ nrestart = 0
  /\ resp = NoResp
  /\ overlap = [u \in Users |-> FALSE]
  /\ nfail = 0
  /\ storeOk = [u \in Users |-> "none"]
  /\ lastSet = [u \in Users |-> NoSet]
  /\ held = [u \in Users |-> NoEntry]
  /\ acc = [u \in Users |-> FreshAcc(~bucket[u].exists, StartTotal(bucket[u]))]

GateNext ==
  \/ \E raw \in Bodies : \E hdr \in HeadersOf[raw] : webhook_bad_signature(hdr, raw)
  \/ \E c \in BOOLEAN : \E hdr \in HeadersOf[ChallengeBody(c)] : webhook_challenge(hdr, c)
  \/ \E hdr \in HeadersOf[NoUserBody] : webhook_missing_user(hdr)
  \/ \E hdr \in HeadersOf[OtherBody] : webhook_unhandled(hdr)
  \/ \E u \in Users, tier \in AllTiers : \E hdr \in HeadersOf[NotificationBody(u, tier)] :
       webhook_miss(hdr, u, tier)
  \/ webhook_loaded(EventLoop)
  \/ Fetch(EventLoop)
  \/ Upload(EventLoop)

GateSpec == GateInit /\ [][GateNext]_vars

\* ================================================================ claims
\* the blob holds exactly the total and the month of the entry
Same(blob, rec) ==
  /\ blob.exists /\ rec.present
  /\ blob.hasPoints /\ blob.plus_points = rec.plus_points
  /\ blob.hasMonth /\ blob.month = rec.month

\* the keys the blob has were taken over unchanged
Adopted(blob, rec) ==
  /\ rec.present
  /\ blob.hasPoints => rec.plus_points = blob.plus_points
  /\ blob.hasMonth => rec.month = blob.month

\* the entry a mutating request that ran alone must leave, from what it saw
Expected(r) ==
  IF r.kind = "set" THEN Rec(2 * r.value, r.now)
  ELSE Rec((IF r.seen.month = r.now THEN r.seen.plus_points ELSE 0) + r.amount, r.now)

Mutations == {"set", "notif"}

\* C1: no GET /points response, single-user or whole-cache, issued in month M
\* shows a record of an earlier month with a non-zero total.
C1_StaleTotalNeverVisible ==
  resp.kind \in {"get", "getall"} =>
    \A u \in Users :
      (resp.body[u].present /\ resp.body[u].month < clock)
        => resp.body[u].plus_points = 0

\* C2: a notification that finds an entry of another month (cached or just
\* loaded) and runs alone for its user leaves the entry with the current
\* month and the tier amount alone as its total.
C2_RolloverPrecedesIncrement ==
  (resp.kind = "notif" /\ resp.iso /\ resp.seen.month # resp.now)
    => user_states[resp.user] = Rec(resp.amount, resp.now)

C2_Witness ==
  /\ resp.kind = "notif" /\ resp.iso /\ resp.seen.month # resp.now
  /\ resp.seen.plus_points > 0 /\ resp.amount > 0
  /\ user_states[resp.user].plus_points = resp.amount

\* C3: for a fresh user (no entry, no blob), after n >= 1 notifications in
\* one month, processed one after another with no set-points and no
\* overlapping request for the user, the total is the sum of the n tier
\* amounts and the month is the current month.
C3_TotalsAccumulate ==
  \A u \in Users :
    (acc[u].ok /\ acc[u].fresh /\ acc[u].n >= 1 /\ ~overlap[u] /\ Busy(u) = {})
      => user_states[u] = Rec(acc[u].sum, clock)

C3_Witness ==
  \E u \in Users :
    /\ acc[u].ok /\ acc[u].fresh /\ acc[u].n = 2 /\ ~overlap[u] /\ Busy(u) = {}
    /\ acc[u].sum = TierAmount("3000") + TierAmount("3000")
    /\ user_states[u] = Rec(10, clock)

C5_TotalsSurviveRestart ==
  (resp.kind = "get" /\ nrestart > 0 /\ held[resp.user].present
     /\ storeOk[resp.user] = "none" /\ nfail = 0 /\ ~overlap[resp.user])
    => resp.body[resp.user] = held[resp.user]

C5_Witness ==
  /\ resp.kind = "get" /\ nrestart > 0 /\ held[resp.user].present
  /\ storeOk[resp.user] = "none" /\ nfail = 0 /\ ~overlap[resp.user]
  /\ resp.got.res = "found"
  /\ held[resp.user].plus_points # 0
  /\ resp.body[resp.user] = held[resp.user]

\* C6: whenever no request for u is in progress and the last upload for u
\* succeeded, the blob of u equals the cache entry of u.
C6_WriteThroughConsistency ==
  \A u \in Users :
    (Busy(u) = {} /\ storeOk[u] \in {"ok", "recovered"} /\ user_states[u].present)
      => Same(bucket[u], user_states[u])

\* C7: a lost update exists, and only through overlap: when the
\* notifications for u have all returned in one month without a set-points
\* and without a storage failure, and the cached or the stored total is less
\* than the starting total plus the amounts, two requests for u overlapped.
C7_LostUpdateNeedsOverlap ==
  \A u \in Users :
    (/\ acc[u].ok /\ acc[u].n >= 1 /\ nfail = 0 /\ Busy(u) = {}
     /\ user_states[u].present
     /\ \/ user_states[u].plus_points < acc[u].sum
        \/ bucket[u].plus_points < acc[u].sum)
      => overlap[u]

C7_LostUpdate ==
  \E u \in Users :
    /\ acc[u].ok /\ acc[u].n = 2 /\ nfail = 0 /\ Busy(u) = {}
    /\ user_states[u].present
    /\ user_states[u].plus_points < acc[u].sum
    /\ bucket[u].plus_points < acc[u].sum

\* C8: a webhook with an invalid signature, a notification without
\* broadcaster_user_id, a handshake and a message of another type change
\* neither the cache nor the bucket and start no storage call; the first two
\* are answered 4xx, the last 200.
C8_RejectedWebhooksChangeNothing ==
  [][(resp' # resp /\ resp'.kind \in {"forbidden", "badrequest", "challenge", "unhandled"})
       => /\ user_states' = user_states /\ bucket' = bucket
          /\ th' = th /\ storeOk' = storeOk /\ nfail' = nfail
          /\ resp'.kind \in {"forbidden", "badrequest"} => resp'.status \in 400..499
          /\ resp'.kind = "unhandled" => resp'.status = 200]_vars

C8_Witness ==
  /\ resp.kind = "forbidden" /\ resp.status = 403
  /\ \E u \in Users : user_states[u].present /\ bucket[u].exists

\* C9: a load that finds no blob or raises leaves the default entry
\* (total 0, current month) and the request goes on to its 200 response; a
\* load that finds a blob adopts its total and month unchanged.
C9_LoadNeverFailsOutward ==
  /\ \A t \in Threads :
       (th[t].pc = "upload" /\ th[t].got.res \in {"absent", "error"})
         => th[t].seen = Rec(0, th[t].now)
  /\ \A t \in Threads :
       (th[t].pc = "upload" /\ th[t].got.res = "found")
         => Adopted(th[t].got.blob, th[t].seen)
  /\ (resp.kind = "get" /\ resp.got.res \in {"absent", "error"})
       => (resp.status = 200 /\ resp.body[resp.user] = Rec(0, clock))
  /\ (resp.kind = "get" /\ resp.got.res = "found")
       => (resp.status = 200 /\ Adopted(resp.got.blob, resp.body[resp.user]))
  /\ (resp.kind \in Mutations /\ resp.got.res # "none") => resp.status = 200

C9_Witness ==
  /\ resp.kind = "notif" /\ resp.got.res = "error" /\ resp.status = 200
  /\ resp.seen = Rec(0, resp.now)
  /\ bucket[resp.user].plus_points = resp.amount

\* C10: a failed upload leaves the request with its 200 response, the cache
\* with the new total and month and the blob as it was; once the next upload
\* for the user succeeds, in a request that ran alone, the blob equals the entry.
C10_StoreFailureSwallowed ==
  /\ (resp.kind \in Mutations /\ ~resp.stored)
       => /\ resp.status = 200
          /\ bucket[resp.user] = resp.before
          /\ resp.iso => user_states[resp.user] = Expected(resp)
  /\ (resp.kind \in Mutations /\ resp.iso /\ storeOk[resp.user] = "recovered")
       => Same(bucket[resp.user], user_states[resp.user])

C10_Witness ==
  /\ resp.kind \in Mutations /\ resp.iso /\ resp.stored
  /\ storeOk[resp.user] = "recovered"
  /\ resp.before # bucket[resp.user]
  /\ Same(bucket[resp.user], user_states[resp.user])

\* C11: every request to /webhook, /set-points and /points ends with a
\* success response or a client-error rejection, never with a server error.
C11_NoServerError ==
  resp.kind # "none" => resp.status \in (200..299) \cup (400..499)

\* C14: every cache entry and every stored record has a total >= 0.
C14_TotalNonNegative ==
  \A u \in Users :
    /\ user_states[u].present => user_states[u].plus_points >= 0
    /\ (bucket[u].exists /\ bucket[u].hasPoints) => bucket[u].plus_points >= 0

\* the responses of POST /webhook
WebhookKinds == {"forbidden", "challenge", "error", "badrequest", "unhandled", "notif"}

\* the requests the claim lets through: any under an empty secret; under a
\* secret, those with the three headers whose signature is "sha256=" and the
\* digest, under the secret, of message id + timestamp + raw body
Passes(secret, hdr, raw) ==
  \/ secret = ""
  \/ /\ hdr.id \in MessageIds
     /\ hdr.ts \in Timestamps
     /\ hdr.sig.present
     /\ hdr.sig.prefix = "sha256="
     /\ hdr.sig.digest = hmac_sha256(secret, hdr.id \o hdr.ts \o raw)

\* C12: a webhook request is answered 403 exactly when it does not pass
\* (with an empty secret none is), whatever its body and type; the request
\* the handler works on has passed; and the step that rejects a request
\* changes neither the cache, the bucket nor any thread.
C12_SignatureGate ==
  [][/\ resp'.kind \in WebhookKinds
          => (resp'.kind = "forbidden" <=> ~Passes(EVENTSUB_SECRET, resp'.hdr, resp'.raw))
     /\ th'[EventLoop].pc # "idle"
          => Passes(EVENTSUB_SECRET, th'[EventLoop].hdr, th'[EventLoop].raw)
     /\ (resp' # resp /\ resp'.kind = "forbidden")
          => /\ resp'.status = 403
             /\ user_states' = user_states /\ bucket' = bucket /\ th' = th
             /\ nfail' = nfail /\ storeOk' = storeOk]_vars

C12_Witness ==
  /\ EVENTSUB_SECRET = ""
  /\ resp.kind = "notif" /\ resp.status = 200
  /\ resp.hdr.id = Absent /\ resp.hdr.ts = Absent
  /\ resp.hdr.sig.present /\ resp.hdr.sig.digest[1] # Secret
  /\ resp.stored /\ bucket[resp.user].plus_points = OldPoints + resp.amount
  /\ resp.amount > 0

\* the amounts the claim gives, in half points
ClaimedAmount(tier) ==
  CASE tier = "1000" -> 2
    [] tier = "2000" -> 4
    [] tier = "3000" -> 5
    [] OTHER -> 0

\* C13: a notification adds 1 for tier "1000", 2 for "2000", 2.5 for "3000"
\* and 0 for any other or an absent tier to the total it finds after the
\* rollover check.
C13_TierAmounts ==
  /\ \A t \in Threads :
       th[t].kind = "notif" => th[t].amount = ClaimedAmount(th[t].tier)
  /\ (resp.kind = "notif" /\ resp.iso)
       => user_states[resp.user].plus_points
            = (IF resp.seen.month = resp.now THEN resp.seen.plus_points ELSE 0)
                + ClaimedAmount(resp.tier)

C13_Witness ==
  /\ resp.kind = "notif" /\ resp.iso /\ resp.tier = "3000"
  /\ resp.seen = Rec(OldPoints, clock)
  /\ user_states[resp.user] = Rec(OldPoints + 5, clock)
  /\ Same(bucket[resp.user], user_states[resp.user])

\* C15: a request that arrives for a user with a cache entry starts no fetch;
\* a GET for such a user returns the entry and leaves the cache as it is, so
\* a second GET changes nothing the first did not; and while the process
\* runs no entry leaves the cache.
C15_LoadOnlyOnMiss ==
  [][/\ \A t \in Threads :
          (th[t].pc = "idle" /\ th'[t].pc # "idle" /\ user_states[th'[t].user].present)
            => (th'[t].pc # "fetch" /\ th'[t].got = NoFetch)
     /\ \A t \in Threads :
          (th'[t].pc = "fetch" /\ th[t].pc # "fetch")
            => (th[t].pc = "idle" /\ ~user_states[th'[t].user].present)
     /\ (resp' # resp /\ resp'.kind = "get" /\ user_states[resp'.user].present
           /\ resp'.got = NoFetch)
          => (user_states' = user_states /\ bucket' = bucket
              /\ resp'.body[resp'.user] = user_states[resp'.user])
     /\ nrestart' = nrestart
          => \A u \in Users : user_states[u].present => user_states'[u].present]_vars

C15_Witness ==
  /\ resp.kind = "get" /\ resp.got = NoFetch
  /\ bucket[resp.user].exists
  /\ ~Same(bucket[resp.user], user_states[resp.user])
  /\ resp.body[resp.user] = user_states[resp.user]
  /\ Busy(resp.user) = {} /\ ~overlap[resp.user]

\* C16: when a notification or a set-points that ran alone for its user
\* returns, the cached month is the month the request read; a notification
\* that found an entry of that month left the month as it was and added its
\* amount to the total; a set-points wrote the month whatever it found.
C16_MonthTracksLastMutation ==
  (resp.kind \in Mutations /\ resp.iso)
    => /\ user_states[resp.user].month = resp.now
       /\ resp.now \in StartMonth..clock
       /\ (resp.kind = "notif" /\ resp.seen.month = resp.now)
            => user_states[resp.user]
                 = Rec(resp.seen.plus_points + resp.amount, resp.seen.month)
       /\ resp.kind = "set"
            => user_states[resp.user] = Rec(2 * resp.value, resp.now)

C16_Witness ==
  /\ resp.kind = "set" /\ resp.iso
  /\ resp.seen.present /\ resp.seen.month < resp.now
  /\ resp.got = NoFetch
  /\ user_states[resp.user].month = clock

\* C17: every notification (also one of amount 0) and every set-points that
\* returns has made exactly one upload attempt, after the load on a miss and
\* the rollover check, and the attempt is over when the response is returned:
\* the blob is the serialized entry if it succeeded and as before if it failed.
C17_PersistOnceBeforeResponse ==
  resp.kind \in Mutations
    => /\ resp.nstore = 1
       /\ resp.stored => bucket[resp.user] = resp.payload
       /\ ~resp.stored => bucket[resp.user] = resp.before
       /\ resp.iso => Same(resp.payload, Expected(resp))
       /\ \A t \in Threads : th[t].nstore = 0

C17_Witness ==
  /\ resp.kind = "notif" /\ resp.amount = 0 /\ resp.iso
  /\ resp.got.res = "found" /\ resp.seen.month # resp.now
  /\ resp.nstore = 1 /\ resp.stored
  /\ resp.before # bucket[resp.user]
  /\ bucket[resp.user] = json_dumps(Rec(0, resp.now))

\* C18: a GET with a user_id changes neither the bucket nor the upload
\* history nor the entry of any other user, and not the entry of its own
\* user when that user was cached as the request tested for it; it never
\* reaches an upload.  A GET without user_id returns the cache as it is and
\* changes nothing and starts no storage call.
C18_GetIsReadOnly ==
  [][/\ (resp' # resp /\ resp'.kind = "get")
          => /\ bucket' = bucket /\ storeOk' = storeOk
             /\ \A v \in Users : v # resp'.user => user_states'[v] = user_states[v]
             /\ resp'.got = NoFetch => user_states' = user_states
             /\ resp'.body[resp'.user] = user_states'[resp'.user]
     /\ (resp' # resp /\ resp'.kind = "getall")
          => /\ resp'.body = user_states
             /\ user_states' = user_states /\ bucket' = bucket /\ th' = th
             /\ nfail' = nfail /\ storeOk' = storeOk
     /\ \A t \in Threads :
          (th[t].kind = "get" /\ th[t].pc = "fetch" /\ th'[t].pc # "fetch")
            => (bucket' = bucket /\ user_states' = user_states /\ th'[t].pc = "loaded")
     /\ \A t \in Threads : th'[t].kind = "get" => th'[t].pc \in {"fetch", "loaded"}]_vars

C18_Witness ==
  /\ resp.kind = "get" /\ resp.got.res = "found"
  /\ bucket[resp.user] = resp.got.blob
  /\ \E v \in Users :
       /\ v # resp.user /\ user_states[v].present /\ user_states[v].plus_points # 0
       /\ Same(bucket[v], user_states[v])

\* C19: when the same notification (same message id, timestamp, signature
\* and body) has been delivered k times in a row to a user within one month,
\* with no overlapping request, the total is the total the first delivery
\* found plus k times the amount.
C19_DuplicatesCountAgain ==
  \A u \in Users :
    (acc[u].ok /\ acc[u].k >= 1 /\ ~overlap[u] /\ Busy(u) = {} /\ user_states[u].present)
      => user_states[u].plus_points = acc[u].base + acc[u].k * acc[u].amt

C19_Witness ==
  \E u \in Users :
    /\ acc[u].ok /\ acc[u].k = MaxReqs + 1 /\ ~overlap[u] /\ Busy(u) = {}
    /\ acc[u].msg.hdr.id = "m1" /\ acc[u].amt = 5
    /\ acc[u].base = OldPoints
    /\ user_states[u].plus_points = OldPoints + (MaxReqs + 1) * 5
    /\ Same(bucket[u], user_states[u])

====
